---------------------------- MODULE Spec2Model ----------------------------
(***************************************************************************)
(* Model of the 5Genesis analytics data handler:                           *)
(*   src/Analytics/Data handler/data_handler/__main__.py   (Flask app)     *)
(*   src/Analytics/Data handler/data_handler/collect_data.py (collector)   *)
(*                                                                         *)
(* Python strings are sequences of one-character strings, so that          *)
(* concatenation, sorting and str() are computed as Python computes them.  *)
(* An optional value (None or v) is the sequence << >> or << v >>.         *)
(***************************************************************************)
EXTENDS Integers, Sequences, FiniteSets, TLC

\* ------------------------------------------------------------ Python values

None == << >>
Some(v) == << v >>
IsNone(o) == o = << >>

Range(s) == { s[i] : i \in 1..Len(s) }

\* The printable ASCII characters, from code point 32 on (three of them,
\* which no name of the model holds, by name).
Ascii ==
  <<
     " ", "!", "dquote", "#", "$", "%", "&", "'", "(", ")", "*", "+",
     ",", "-", ".", "/", "0", "1", "2", "3", "4", "5", "6", "7",
     "8", "9", ":", ";", "<", "=", ">", "?", "@", "A", "B", "C",
     "D", "E", "F", "G", "H", "I", "J", "K", "L", "M", "N", "O",
     "P", "Q", "R", "S", "T", "U", "V", "W", "X", "Y", "Z", "[",
     "backslash", "]", "^", "_", "backtick", "a", "b", "c", "d", "e", "f", "g",
     "h", "i", "j", "k", "l", "m", "n", "o", "p", "q", "r", "s",
     "t", "u", "v", "w", "x", "y", "z", "{", "|", "}", "~"
  >>

\* ord(c): Python compares strings by code point.
CodePoint == [c \in Range(Ascii) |-> 31 + (CHOOSE i \in 1..Len(Ascii) : Ascii[i] = c)]

Ord(c) == CodePoint[c]

\* a < b for Python strings.
RECURSIVE StrLess(_, _)
StrLess(a, b) ==
  IF b = << >> THEN FALSE
  ELSE IF a = << >> THEN TRUE
  ELSE IF Ord(Head(a)) # Ord(Head(b)) THEN Ord(Head(a)) < Ord(Head(b))
  ELSE StrLess(Tail(a), Tail(b))

\* Insertion of x into the ascending list s (after its equals: stable).
RECURSIVE Insert(_, _)
Insert(x, s) ==
  IF s = << >> THEN << x >>
  ELSE IF StrLess(x, Head(s)) THEN << x >> \o s
  ELSE << Head(s) >> \o Insert(x, Tail(s))

\* Python's sorted() on a list of strings.
RECURSIVE sorted(_)
sorted(s) ==
  IF s = << >> THEN << >>
  ELSE Insert(s[Len(s)], sorted(SubSeq(s, 1, Len(s) - 1)))

\* Python's ''.join(list of strings).
RECURSIVE join(_)
join(s) == IF s = << >> THEN << >> ELSE Head(s) \o join(Tail(s))

\* str(n) for a small non-negative integer.
Digit(d) == CASE d = 0 -> "0" [] d = 1 -> "1" [] d = 2 -> "2" [] d = 3 -> "3"
              [] d = 4 -> "4" [] d = 5 -> "5" [] d = 6 -> "6" [] d = 7 -> "7"
              [] d = 8 -> "8" [] OTHER -> "9"

RECURSIVE str_int(_)
str_int(n) == IF n < 10 THEN << Digit(n) >>
              ELSE str_int(n \div 10) \o << Digit(n % 10) >>

\* str(b) for a bool.
str_bool(b) == IF b THEN << "T", "r", "u", "e" >>
               ELSE << "F", "a", "l", "s", "e" >>

str_None == << "N", "o", "n", "e" >>

\* str(o) for an optional string, and for an optional integer.
str_opt(o) == IF IsNone(o) THEN str_None ELSE o[1]
str_optint(o) == IF IsNone(o) THEN str_None ELSE str_int(o[1])

\* str(list of strings): "['a', 'b']", and "[]" for the empty list.
RECURSIVE str_items(_)
str_items(l) ==
  IF l = << >> THEN << >>
  ELSE << "'" >> \o Head(l) \o << "'" >>
       \o (IF Len(l) > 1 THEN << ",", " " >> ELSE << >>)
       \o str_items(Tail(l))

str_list(l) == << "[" >> \o str_items(l) \o << "]" >>


\* ------------------------------------------------------------------ tables

\* A pandas DataFrame: the column names in order, and the rows in index
\* order.  A row is its index value t (an optional time; None under a default
\* integer index) and one optional cell per column (None is NaN).
EmptyTable == [cols |-> << >>, rows |-> << >>]

\* DataFrame.empty: some axis has length 0.
empty(df) == df.cols = << >> \/ df.rows = << >>

Min(S) == CHOOSE x \in S : \A y \in S : x <= y
Max(S) == CHOOSE x \in S : \A y \in S : y <= x

RECURSIVE Sum(_, _)
Sum(f, S) == IF S = {} THEN 0
             ELSE LET x == CHOOSE y \in S : TRUE IN f[x] + Sum(f, S \ {x})

\* The elements of a set of integers in ascending order.
RECURSIVE Ascending(_)
Ascending(S) == IF S = {} THEN << >>
                ELSE << Min(S) >> \o Ascending(S \ {Min(S)})

\* The elements of a set of strings, as some list.
RECURSIVE AsList(_)
AsList(S) == IF S = {} THEN << >>
             ELSE LET x == CHOOSE y \in S : TRUE IN << x >> \o AsList(S \ {x})

Repeat(v, n) == [i \in 1..n |-> v]

Times(df) == { r.t[1] : r \in { q \in Range(df.rows) : ~IsNone(q.t) } }

\* pd.concat(tables, ignore_index=True) of tables of one schema: the rows
\* of all of them, one after the other.
RECURSIVE JoinRows(_)
JoinRows(tables) ==
  IF tables = << >> THEN << >>
  ELSE Head(tables).rows \o JoinRows(Tail(tables))

concat_rows(tables) == [cols |-> tables[1].cols, rows |-> JoinRows(tables)]

\* The cells of df at index value t (NaN where df has no such row).
CellsAt(df, t) ==
  LET hit == { i \in 1..Len(df.rows) : df.rows[i].t = Some(t) }
  IN IF hit = {} THEN Repeat(None, Len(df.cols)) ELSE df.rows[Min(hit)].vals

RECURSIVE JoinCols(_)
JoinCols(dfs) == IF dfs = << >> THEN << >>
                 ELSE Head(dfs).cols \o JoinCols(Tail(dfs))

RECURSIVE JoinCells(_, _)
JoinCells(dfs, t) == IF dfs = << >> THEN << >>
                     ELSE CellsAt(Head(dfs), t) \o JoinCells(Tail(dfs), t)

\* pd.concat(dfs, axis=1).sort_index(): the outer join of the tables on
\* their time index, columns side by side, rows by ascending time.
concat_columns(dfs) ==
  LET index == Ascending(UNION { Times(dfs[i]) : i \in 1..Len(dfs) })
  IN [cols |-> JoinCols(dfs),
      rows |-> [k \in 1..Len(index) |->
                  [t |-> Some(index[k]), vals |-> JoinCells(dfs, index[k])]]]

\* df.index = df.index - df.index.min()
rebase(df) ==
  IF Times(df) = {} THEN df
  ELSE [df EXCEPT !.rows =
          [k \in 1..Len(df.rows) |->
             [df.rows[k] EXCEPT !.t = Some(df.rows[k].t[1] - Min(Times(df)))]]]

\* json.loads(df.to_json()), per column: {column: {time: value}}.  The
\* column order and the row order are not part of the JSON object.
to_json(df) ==
  { << df.cols[c], df.rows[k].t, df.rows[k].vals[c] >> :
      c \in 1..Len(df.cols), k \in 1..Len(df.rows) }


\* ------------------------------------------------- the backing store (InfluxDB)

\* Column names of the store's result tables.
c_time == << "_", "t", "i", "m", "e" >>
c_value == << "_", "v", "a", "l", "u", "e" >>
c_measurement == << "_", "m", "e", "a", "s", "u", "r", "e", "m", "e", "n", "t" >>
HelperColumns ==
  { c_time, << "_", "s", "t", "a", "r", "t" >>, << "_", "s", "t", "o", "p" >>,
    << "r", "e", "s", "u", "l", "t" >>, << "t", "a", "b", "l", "e" >> }

\* The two legacy tag names that carry the experiment identifier.
Tags == << "ExperimentId", "ExecutionId" >>

\* What query_api.query_data_frame returns: a list of DataFrames (list),
\* one DataFrame (frames has one element) or something else (frames is
\* empty and list is FALSE).
Frame(tbl) == [list |-> FALSE, frames |-> << tbl >>]

\* A table of one column and the given values, under a default index.
ValueTable(column, values) ==
  [cols |-> << column >>,
   rows |-> [k \in 1..Len(values) |-> [t |-> None, vals |-> << values[k] >>]]]

\* duration(v: max_lag): the seconds of "1s", "2s", ...
duration(lag) ==
  CASE lag[1] = "1" -> 1 [] lag[1] = "2" -> 2 [] lag[1] = "3" -> 3 [] OTHER -> 4

\* The Flux pipeline get_data builds for one measurement, run on the points
\* of a bucket: filter on the measurement, on the identifier under either
\* tag, on the fields; aggregateWindow(every, mean, createEmpty: false);
\* pivot on _time; limit(n, offset).
flux_data(points, m, experimentId, fields, max_lag, limit, offset) ==
  LET every == duration(max_lag)
      sel == { p \in points :
                 /\ p.measurement = m
                 /\ p.tag \in Range(Tags) /\ p.id = experimentId
                 /\ (fields # << >> => p.field \in Range(fields)) }
      stop(p) == ((p.t \div every) + 1) * every
      cols == sorted(AsList({ p.field : p \in sel }))
      index == Ascending({ stop(p) : p \in sel })
      cell(t, f) ==
        LET w == { p \in sel : stop(p) = t /\ p.field = f }
        IN IF w = {} THEN None
           ELSE Some(Sum([p \in w |-> p.v], w) \div Cardinality(w))
      rows == [k \in 1..Len(index) |->
                 [t |-> None,
                  vals |-> << Some(index[k]) >>
                           \o [c \in 1..Len(cols) |-> cell(index[k], cols[c])]]]
      from == IF IsNone(limit) \/ IsNone(offset) THEN 0 ELSE offset[1]
      kept == IF IsNone(limit) THEN rows
              ELSE SubSeq(rows, from + 1,
                          IF from + limit[1] < Len(rows) THEN from + limit[1]
                          ELSE Len(rows))
  IN Frame([cols |-> << c_time >> \o cols, rows |-> kept])

\* ---------------------------------------------- collect_data.DataCollector

\* _query_df: one DataFrame from whatever the client returned.
_query_df(tables) ==
  IF tables.list
  THEN LET nonempty == SelectSeq(tables.frames, LAMBDA t : ~empty(t))
       IN IF nonempty # << >> THEN concat_rows(nonempty) ELSE EmptyTable
  ELSE IF tables.frames # << >> THEN tables.frames[1] ELSE EmptyTable

\* df[column].dropna(): the non-null cells of a column, in row order.
dropna(df, column) ==
  LET c == CHOOSE i \in 1..Len(df.cols) : df.cols[i] = column
      cells == [k \in 1..Len(df.rows) |-> df.rows[k].vals[c]]
      keep == SelectSeq(cells, LAMBDA v : ~IsNone(v))
  IN [k \in 1..Len(keep) |-> keep[k][1]]

\* The loop body of the two experiment-id operations: the ids one tag's
\* query adds.
tag_ids(tables) ==
  LET df == _query_df(tables)
  IN IF ~empty(df) /\ c_value \in Range(df.cols)
     THEN Range(dropna(df, c_value)) ELSE {}

get_all_experimentIdsNoExecutionId(bucket) ==
  sorted(AsList(tag_ids(bucket.tagValues[Tags[1]])))

get_all_experimentIds(bucket) ==
  sorted(AsList(UNION { tag_ids(bucket.tagValues[Tags[i]]) : i \in 1..Len(Tags) }))

get_experimentIds_for_measurement(bucket, measurement) ==
  sorted(AsList(UNION { tag_ids(bucket.tagValuesFor[<< Tags[i], measurement >>]) :
                          i \in 1..Len(Tags) }))

get_measurements_for_experimentId(bucket, experimentId) ==
  LET df == _query_df(bucket.measurementsOf[experimentId])
      col == IF c_measurement \in Range(df.cols) THEN c_measurement ELSE c_value
  IN IF empty(df) THEN << >>
     ELSE sorted(AsList(Range(dropna(df, col))))

\* df.set_index(pd.to_datetime(df["_time"])) when there is a _time column,
\* and the drop of the helper columns.
drop_helpers(df) ==
  LET keep == { c \in 1..Len(df.cols) : df.cols[c] \notin HelperColumns }
      order == Ascending(keep)
      time(k) == IF c_time \in Range(df.cols)
                 THEN df.rows[k].vals[CHOOSE c \in 1..Len(df.cols) : df.cols[c] = c_time]
                 ELSE df.rows[k].t
  IN [cols |-> [i \in 1..Len(order) |-> df.cols[order[i]]],
      rows |-> [k \in 1..Len(df.rows) |->
                  [t |-> time(k),
                   vals |-> [i \in 1..Len(order) |-> df.rows[k].vals[order[i]]]]]]

\* DataCollector.get_data
collect(bucket, experimentId, measurements, fields, limit, offset, max_lag) ==
  LET ms == IF measurements = << >>
            THEN get_measurements_for_experimentId(bucket, experimentId)
            ELSE measurements
      df(m) == _query_df(flux_data(bucket.points, m, experimentId, fields,
                                   max_lag, limit, offset))
      all == [i \in 1..Len(ms) |-> df(ms[i])]
      dfs == SelectSeq(all, LAMBDA d : ~empty(d))
      cleaned == [i \in 1..Len(dfs) |-> drop_helpers(dfs[i])]
  IN IF dfs = << >> THEN EmptyTable ELSE concat_columns(cleaned)


\* ------------------------------- time_series_matching and outlier_detection

Abs(x) == IF x < 0 THEN -x ELSE x

\* The first non-null cell of two.
FirstCell(a, b) == IF IsNone(a) THEN b ELSE a

\* The rows of a table with every row that lies within lag of the row kept
\* before it folded into that row (the earlier instant is the output one).
RECURSIVE Coalesce(_, _, _)
Coalesce(done, rows, lag) ==
  IF rows = << >> THEN done
  ELSE LET r == Head(rows)
           n == Len(done)
       IN IF /\ n > 0 /\ ~IsNone(r.t) /\ ~IsNone(done[n].t)
             /\ r.t[1] - done[n].t[1] <= lag
          THEN Coalesce([done EXCEPT ![n].vals =
                           [c \in 1..Len(r.vals) |-> FirstCell(done[n].vals[c], r.vals[c])]],
                        Tail(rows), lag)
          ELSE Coalesce(done \o << r >>, Tail(rows), lag)

\* synchronize(dataframes=df, max_lag, merge=True): one table, the columns
\* of the input aligned row-wise on the coalesced time index.
synchronize_merge(df, max_lag) ==
  [df EXCEPT !.rows = Coalesce(<< >>, df.rows, duration(max_lag))]

\* The instants of one series relabelled against another: an instant within
\* lag of instants of the other series becomes the earliest of them.
Relabel(df, other, lag) ==
  [df EXCEPT !.rows =
     [k \in 1..Len(df.rows) |->
        LET t == df.rows[k].t[1]
            near == { u \in Times(other) : Abs(t - u) <= lag }
        IN [df.rows[k] EXCEPT !.t = Some(Min(near \cup {t}))]]]

\* synchronize(dataframes={'series1': a, 'series2': b}, max_lag,
\* merge=False): both series, each re-indexed and not joined.
synchronize_pair(a, b, max_lag) ==
  [series1 |-> Relabel(a, b, duration(max_lag)),
   series2 |-> Relabel(b, a, duration(max_lag))]

\* The non-null cells of column c.
Cells(df, c) ==
  { k \in 1..Len(df.rows) : ~IsNone(df.rows[k].vals[c]) }

Mean(df, c) ==
  Sum([k \in Cells(df, c) |-> df.rows[k].vals[c][1]], Cells(df, c))
    \div Cardinality(Cells(df, c))

\* The lower median of the non-null cells of column c.
Median(df, c) ==
  LET vs == { df.rows[k].vals[c][1] : k \in Cells(df, c) }
  IN Ascending(vs)[(Cardinality(vs) + 1) \div 2]

\* The mean distance of the cells of column c from centre.
Spread(df, c, centre) ==
  Sum([k \in Cells(df, c) |-> Abs(df.rows[k].vals[c][1] - centre)], Cells(df, c))
    \div Cardinality(Cells(df, c))

\* remove(df, strategy): the rows none of whose cells is an outlier of its
\* column (strategy 0: distance from the mean; 1: from the median).  The
\* columns are kept and no row is added.
remove(df, strategy) ==
  LET centre(c) == IF strategy = 0 THEN Mean(df, c) ELSE Median(df, c)
      ok(r) == \A c \in 1..Len(df.cols) :
                  \/ IsNone(r.vals[c])
                  \/ Abs(r.vals[c][1] - centre(c)) <= 2 * Spread(df, c, centre(c))
  IN [df EXCEPT !.rows = SelectSeq(df.rows, ok)]

\* --------------------------------------------------------- __main__ (Flask)

zscore == << "z", "s", "c", "o", "r", "e" >>
mad == << "m", "a", "d" >>

VARIABLES
  sources,       \* the configured datasources: name -> its collector
  store,         \* the backing store: bucket -> its content (never changes)
  enable_cache,  \* the ENABLE_CACHE flag read at startup
  data_cache,    \* the global dict: dataid -> the cached DataFrame object
  heap,          \* the DataFrame objects: object -> its table
  th,            \* each worker thread's request and local variables
  prepurge,      \* the tables the cache held when it was last purged
  quota          \* the requests still to come (-1: any number)

vars == << sources, store, enable_cache, data_cache, heap, th, prepurge, quota >>

\* The key retrieve_data caches under (line 90), for the request's
\* parameters and the experiment id of the call.
dataid(req, experimentId) ==
  req.datasource \o experimentId \o join(sorted(req.measurements))
    \o str_list(req.fields) \o str_opt(req.remove_outliers)
    \o str_bool(req.match_series) \o str_opt(req.additional_clause)
    \o req.max_lag \o str_optint(req.limit)

\* datasource not in sources or not sources[datasource].client
unavailable(datasource) ==
  datasource \notin DOMAIN sources \/ ~sources[datasource].client

\* getattr(sources[datasource], "get_data")(experimentId, ...)
get_data(req, exp) ==
  collect(store[sources[req.datasource].bucket], exp, req.measurements,
          req.fields, req.limit, req.offset, req.max_lag)

\* The post-processing with the outlier filter run before the synchronizer.
RemoveThenSynchronize(req, df) ==
  LET kept == IF IsNone(req.remove_outliers) THEN df
              ELSE IF req.remove_outliers[1] = zscore THEN remove(df, 0)
              ELSE IF req.remove_outliers[1] = mad THEN remove(df, 1)
              ELSE df
  IN IF req.match_series THEN synchronize_merge(kept, req.max_lag) ELSE kept

\* Lines 102-108 of retrieve_data: the post-processing of the table.
post_process(req, df) ==
  LET synced == IF req.match_series THEN synchronize_merge(df, req.max_lag) ELSE df
  IN IF IsNone(req.remove_outliers) THEN synced
     ELSE IF req.remove_outliers[1] = zscore THEN remove(synced, 0)
     ELSE IF req.remove_outliers[1] = mad THEN remove(synced, 1)
     ELSE synced

\* For functions, as for sequences.
Values(f) == { f[x] : x \in DOMAIN f }

\* The list without the zeros and without the later copies of an element.
RECURSIVE Distinct(_, _)
Distinct(done, rest) ==
  IF rest = << >> THEN done
  ELSE IF Head(rest) = 0 \/ Head(rest) \in Range(done) THEN Distinct(done, Tail(rest))
  ELSE Distinct(Append(done, Head(rest)), Tail(rest))

RECURSIVE ThreadRefs(_, _)
ThreadRefs(locals, t) ==
  IF t \notin DOMAIN locals THEN << >>
  ELSE << locals[t].series1, locals[t].data >> \o ThreadRefs(locals, t + 1)

\* The objects something refers to: first those of the cache, by key, then
\* those of the threads' local variables.
Reachable(cache, locals) ==
  LET keys == sorted(AsList(DOMAIN cache))
  IN Distinct(<< >>, [i \in 1..Len(keys) |-> cache[keys[i]]] \o ThreadRefs(locals, 1))

\* An object's identity is only what refers to it: the objects are numbered
\* in the order of Reachable, and the ones nothing refers to are dropped.
Commit(h, cache, locals) ==
  LET order == Reachable(cache, locals)
      id(o) == IF o = 0 THEN 0 ELSE CHOOSE i \in 1..Len(order) : order[i] = o
  IN /\ heap' = [i \in 1..Len(order) |-> h[order[i]]]
     /\ data_cache' = [k \in DOMAIN cache |-> id(cache[k])]
     /\ th' = [t \in DOMAIN locals |->
                 [locals[t] EXCEPT !.data = id(locals[t].data),
                                   !.series1 = id(locals[t].series1)]]

\* The object a new DataFrame gets.
NewObject == Len(heap) + 1

NoResponse == [code |-> 0, error |-> "", json |-> {}, list |-> << >>]


\* A thread with no request.
Idle ==
  [pc |-> "idle", req |-> << >>, call |-> 0, dataid |-> << >>, data |-> 0,
   series1 |-> 0, hit |-> FALSE, fresh |-> FALSE, calls |-> << >>,
   resp |-> NoResponse]

\* The experiment id of the retrieve_data call a get_data handler is in.
experimentId(l) ==
  IF l.call = 1 THEN l.req.experimentId1 ELSE l.req.experimentId2[1]

Error(code, message) == [NoResponse EXCEPT !.code = code, !.error = message]

\* A request arrives and a worker thread takes it.
Accept(t, requests) ==
  /\ th[t].pc = "idle"
  /\ quota # 0
  /\ quota' = IF quota > 0 THEN quota - 1 ELSE quota
  /\ \E req \in requests :
       th' = [th EXCEPT ![t] =
                [Idle EXCEPT !.req = req, !.call = 1,
                             !.pc = IF req.endpoint = "get_data"
                                    THEN "retrieve" ELSE "catalog"]]
  /\ UNCHANGED << sources, store, enable_cache, data_cache, heap, prepurge >>

\* The handlers of the three catalog routes (lines 62-83).
Catalog(t) ==
  /\ th[t].pc = "catalog"
  /\ LET req == th[t].req
         bucket == store[sources[req.datasource].bucket]
         list == CASE req.endpoint = "get_all_experimentIds" ->
                        get_all_experimentIds(bucket)
                   [] req.endpoint = "get_experimentIds_for_measurement" ->
                        get_experimentIds_for_measurement(bucket, req.measurement)
                   [] OTHER ->
                        get_measurements_for_experimentId(bucket, req.experimentId1)
     IN th' = [th EXCEPT ![t].pc = "done",
                         ![t].resp =
                            IF unavailable(req.datasource)
                            THEN Error(404, "is not available")
                            ELSE [NoResponse EXCEPT !.code = 200, !.list = list]]
  /\ UNCHANGED << sources, store, enable_cache, data_cache, heap, prepurge, quota >>

\* retrieve_data, lines 87-93: the availability check, the key, and the
\* test whether the cache holds the key.
RetrieveStart(t) ==
  /\ th[t].pc = "retrieve"
  /\ LET l == th[t]
         key == dataid(l.req, experimentId(l))
     IN th' = [th EXCEPT ![t] =
                 IF unavailable(l.req.datasource)
                 THEN [l EXCEPT !.data = 0, !.pc = "handle"]
                 ELSE [l EXCEPT !.dataid = key, !.hit = FALSE, !.fresh = TRUE,
                                !.calls = << >>,
                                !.pc = IF enable_cache /\ key \in DOMAIN data_cache
                                       THEN "read" ELSE "fetch"]]
  /\ UNCHANGED << sources, store, enable_cache, data_cache, heap, prepurge, quota >>

\* Where retrieve_data goes with the table get_data returned: to line 96
\* under "if enable_cache:" (line 91), to line 102 under its else.
AlwaysPut == "put"

after_get_data == IF enable_cache THEN "put" ELSE "post"

\* retrieve_data, line 95 (caching) or line 101 (no caching): get_data of
\* the datasource returns a new DataFrame.
Fetch(t) ==
  /\ th[t].pc = "fetch"
  /\ LET l == th[t]
         o == NewObject
         locals == [th EXCEPT ![t].data = o,
                              ![t].calls = Append(l.calls, "get_data"),
                              ![t].pc = after_get_data]
     IN Commit(Append(heap, get_data(l.req, experimentId(l))), data_cache, locals)
  /\ UNCHANGED << sources, store, enable_cache, prepurge, quota >>

\* The cache after data_cache[key] = o.
put(cache, key, o) == (key :> o) @@ cache

\* retrieve_data, line 96: data_cache[dataid] = data
Put(t) ==
  /\ th[t].pc = "put"
  /\ LET l == th[t]
         locals == [th EXCEPT ![t].calls = Append(l.calls, "put"),
                              ![t].pc = "post"]
     IN Commit(heap, put(data_cache, l.dataid, l.data), locals)
  /\ UNCHANGED << sources, store, enable_cache, prepurge, quota >>

\* retrieve_data, line 99: data = data_cache[dataid], a KeyError when the
\* dict the global names now does not hold the key.
ReadCache(t) ==
  /\ th[t].pc = "read"
  /\ LET l == th[t]
         locals ==
           IF l.dataid \in DOMAIN data_cache
           THEN [th EXCEPT ![t].data = data_cache[l.dataid], ![t].hit = TRUE,
                           ![t].calls = Append(l.calls, "read"),
                           ![t].pc = "post"]
           ELSE [th EXCEPT ![t].resp = Error(500, "KeyError"), ![t].pc = "done"]
     IN Commit(heap, data_cache, locals)
  /\ UNCHANGED << sources, store, enable_cache, prepurge, quota >>

\* The calls lines 102-108 make for a request.
post_calls(req) ==
  (IF req.match_series THEN << "synchronize" >> ELSE << >>)
    \o (IF ~IsNone(req.remove_outliers) /\ req.remove_outliers[1] \in {zscore, mad}
        THEN << "remove" >> ELSE << >>)

\* retrieve_data, lines 102-110: synchronize and remove each return a new
\* DataFrame; without them data stays the object fetched or read.
PostProcess(t) ==
  /\ th[t].pc = "post"
  /\ LET l == th[t]
         o == NewObject
         same == post_calls(l.req) = << >>
         locals == [th EXCEPT ![t].data = IF same THEN l.data ELSE o,
                              ![t].calls = l.calls \o post_calls(l.req),
                              ![t].pc = "handle"]
     IN /\ Commit(IF same THEN heap
                   ELSE Append(heap, post_process(l.req, heap[l.data])),
                   data_cache, locals)
        /\ prepurge' = IF l.fresh THEN << >> ELSE prepurge
  /\ UNCHANGED << sources, store, enable_cache, quota >>


\* The JSON of one named series of the comparison response.
series_json(name, df) == { << name >> \o x : x \in to_json(df) }

\* get_data, lines 133-138: the response to a single-experiment request.
\* data.items() raises AttributeError when retrieve_data returned None.
HandleSingle(t) ==
  /\ th[t].pc = "handle"
  /\ IsNone(th[t].req.experimentId2)
  /\ LET l == th[t]
         locals ==
           [th EXCEPT ![t].pc = "done",
                      ![t].resp =
                         IF l.data = 0 THEN Error(500, "AttributeError")
                         ELSE IF empty(heap[l.data])
                         THEN Error(404, "is currently not available")
                         ELSE [NoResponse EXCEPT !.code = 200,
                                                 !.json = to_json(heap[l.data])]]
     IN th' = locals
  /\ UNCHANGED << sources, store, enable_cache, data_cache, heap, prepurge, quota >>

\* get_data, lines 140-143: the first series of a comparison.  The index
\* of the object retrieve_data returned is re-based in place.
HandleFirst(t) ==
  /\ th[t].pc = "handle"
  /\ ~IsNone(th[t].req.experimentId2)
  /\ th[t].call = 1
  /\ LET l == th[t]
     IN IF l.data = 0
        THEN Commit(heap, data_cache,
                    [th EXCEPT ![t].pc = "done",
                               ![t].resp = Error(404, "is currently not available")])
        ELSE Commit([heap EXCEPT ![l.data] = rebase(heap[l.data])], data_cache,
                    [th EXCEPT ![t].series1 = l.data, ![t].data = 0,
                               ![t].call = 2, ![t].pc = "retrieve"])
  /\ UNCHANGED << sources, store, enable_cache, prepurge, quota >>

\* get_data, lines 144-149: the second series is re-based in place (an
\* AttributeError on None), both are synchronized and serialized.
HandleSecond(t) ==
  /\ th[t].pc = "handle"
  /\ ~IsNone(th[t].req.experimentId2)
  /\ th[t].call = 2
  /\ LET l == th[t]
         rebased == [heap EXCEPT ![l.data] = rebase(heap[l.data])]
         series_dict == synchronize_pair(rebased[l.series1], rebased[l.data],
                                         l.req.max_lag)
     IN IF l.data = 0
        THEN Commit(heap, data_cache,
                    [th EXCEPT ![t].pc = "done",
                               ![t].resp = Error(500, "AttributeError")])
        ELSE Commit(rebased, data_cache,
                    [th EXCEPT ![t].pc = "done",
                       ![t].resp =
                          [NoResponse EXCEPT
                             !.code = 200,
                             !.json = series_json("series1", series_dict.series1)
                                      \cup series_json("series2", series_dict.series2)]])
  /\ UNCHANGED << sources, store, enable_cache, prepurge, quota >>

\* The response is sent and the thread is free again.
Finish(t) ==
  /\ th[t].pc = "done"
  /\ Commit(heap, data_cache, [th EXCEPT ![t] = Idle])
  /\ UNCHANGED << sources, store, enable_cache, prepurge, quota >>

\* purge_cache (lines 50-54): the global names a new, empty dict.
purge_cache ==
  /\ Commit(heap, << >>, [t \in DOMAIN th |-> [th[t] EXCEPT !.fresh = FALSE]])
  /\ prepurge' = [k \in DOMAIN data_cache |-> heap[data_cache[k]]]
  /\ UNCHANGED << sources, store, enable_cache, quota >>


\* --------------------------------------------------- configuration and data

\* Datasource names: u and u4 are configured, z is configured with no
\* client, x is not configured.
ds_u == << "u" >>
ds_u4 == << "u", "4" >>
ds_z == << "z" >>
ds_x == << "x" >>

exp_42 == << "4", "2" >>
exp_43 == << "4", "3" >>
exp_2 == << "2" >>
exp_9 == << "9" >>

m_m == << "m" >>
m_n == << "n" >>
f_f == << "f" >>
f_g == << "g" >>
lag_1s == << "1", "s" >>
lag_2s == << "2", "s" >>

Point(m, tag, id, t, f, v) ==
  [measurement |-> m, tag |-> tag, id |-> id, t |-> t, field |-> f, v |-> v]

\* The answer of the store to a discovery query: one table of one _value
\* column holding the given strings.
Discovered(S) == Frame(ValueTable(c_value, [k \in 1..Len(AsList(S)) |-> Some(AsList(S)[k])]))

\* A bucket holding the given points, with the tag index they imply.
Bucket(points) ==
  [points |-> points,
   tagValues |-> [tag \in Range(Tags) |->
                    Discovered({ p.id : p \in { q \in points : q.tag = tag } })],
   tagValuesFor |-> [x \in Range(Tags) \X { p.measurement : p \in points } |->
                       Discovered({ p.id : p \in { q \in points :
                                      q.tag = x[1] /\ q.measurement = x[2] } })],
   measurementsOf |-> [id \in { exp_42, exp_43, exp_2, exp_9 } |->
                         Discovered({ p.measurement : p \in { q \in points : q.id = id } })]]

\* Experiment 42 (an outlier at t = 9) and experiment 43, which ran later
\* and is stored under the other tag name.
points_b1 ==
  { Point(m_m, "ExperimentId", exp_42, 5, f_f, 10),
    Point(m_m, "ExperimentId", exp_42, 6, f_f, 12),
    Point(m_m, "ExperimentId", exp_42, 7, f_f, 11),
    Point(m_m, "ExperimentId", exp_42, 9, f_f, 50),
    Point(m_n, "ExperimentId", exp_42, 5, f_g, 3),
    Point(m_n, "ExperimentId", exp_42, 7, f_g, 4),
    Point(m_m, "ExecutionId", exp_43, 20, f_f, 7),
    Point(m_m, "ExecutionId", exp_43, 21, f_f, 9),
    Point(m_m, "ExperimentId", exp_2, 1, f_f, 1) }

points_b2 ==
  { Point(m_m, "ExperimentId", exp_2, 3, f_f, 8),
    Point(m_m, "ExperimentId", exp_2, 4, f_g, 6) }

MainStore == [b \in { "b1", "b2" } |-> Bucket(IF b = "b1" THEN points_b1 ELSE points_b2)]

\* The datasources the startup code built from the secret (lines 160-205).
MainSources ==
  (ds_u :> [client |-> TRUE, bucket |-> "b1"])
    @@ (ds_u4 :> [client |-> TRUE, bucket |-> "b2"])
    @@ (ds_z :> [client |-> FALSE, bucket |-> "b1"])

\* A request to one of the routes, with the parsed query arguments.
Request(endpoint, datasource, id1, id2, measurement) ==
  [endpoint |-> endpoint, datasource |-> datasource, experimentId1 |-> id1,
   experimentId2 |-> id2, measurement |-> measurement,
   measurements |-> << >>, fields |-> << >>, match_series |-> FALSE,
   remove_outliers |-> None, additional_clause |-> None, limit |-> None,
   offset |-> None, max_lag |-> lag_1s]

\* The get_data requests of the main specification: one or two experiments
\* of u, with and without post-processing; an experiment with no rows; a
\* datasource that is not configured.
DataRequests ==
  { [Request("get_data", ds_u, id1, id2, << >>) EXCEPT
       !.measurements = << m_m >>, !.match_series = p[1], !.remove_outliers = p[2]] :
      id1 \in { exp_42, exp_43 }, id2 \in { None, Some(exp_43) },
      p \in { << FALSE, None >>, << TRUE, Some(zscore) >>, << FALSE, Some(mad) >> } }
    \cup { Request("get_data", ds_u, exp_9, None, << >>) }
    \cup { Request("get_data", ds_x, exp_42, id2, << >>) : id2 \in { None, Some(exp_43) } }

CatalogRequests ==
  { Request(e, d, exp_42, None, m_m) :
      e \in { "get_all_experimentIds", "get_experimentIds_for_measurement",
              "get_measurements_for_experimentId" },
      d \in { ds_u, ds_z, ds_x } }

Init ==
  /\ sources = MainSources
  /\ store = MainStore
  /\ enable_cache \in BOOLEAN
  /\ data_cache = << >>
  /\ heap = << >>
  /\ th = [t \in { 1 } |-> Idle]
  /\ prepurge = << >>
  /\ quota = -1

Requests == DataRequests \cup CatalogRequests

Next ==
  \/ purge_cache
  \/ \E t \in DOMAIN th : Accept(t, Requests)
  \/ \E t \in DOMAIN th : Catalog(t)
  \/ \E t \in DOMAIN th : RetrieveStart(t)
  \/ \E t \in DOMAIN th : Fetch(t)
  \/ \E t \in DOMAIN th : Put(t)
  \/ \E t \in DOMAIN th : ReadCache(t)
  \/ \E t \in DOMAIN th : PostProcess(t)
  \/ \E t \in DOMAIN th : HandleSingle(t)
  \/ \E t \in DOMAIN th : HandleFirst(t)
  \/ \E t \in DOMAIN th : HandleSecond(t)
  \/ \E t \in DOMAIN th : Finish(t)

Spec == Init /\ [][Next]_vars

\* ------------------------------------------- the catalog on varying stores

\* What the client may return for a discovery query: one table (with a
\* null, a repeated or no value, in no order), a list of tables (some
\* empty), an empty list, or no table at all.
Values_(column, values) == Frame(ValueTable(column, values))

TagResults ==
  { Values_(c_value, << >>),
    Values_(c_value, << Some(exp_43), Some(exp_42) >>),
    Values_(c_value, << Some(exp_42), None, Some(exp_42) >>),
    Values_(c_value, << Some(exp_9), Some(exp_2), Some(exp_43) >>),
    [list |-> TRUE, frames |-> << >>],
    [list |-> TRUE,
     frames |-> << ValueTable(c_value, << Some(exp_43) >>), EmptyTable,
                   ValueTable(c_value, << None, Some(exp_2) >>) >>],
    [list |-> FALSE, frames |-> << >>] }

MeasurementResults ==
  TagResults \cup { Values_(c_measurement, << Some(m_n), Some(m_m), Some(m_n) >>) }

CatalogStore(a, b, c) ==
  [name \in { "b1" } |->
     [points |-> {},
      tagValues |-> [tag \in Range(Tags) |-> IF tag = Tags[1] THEN a ELSE b],
      tagValuesFor |-> [x \in Range(Tags) \X { m_m } |->
                          IF x[1] = Tags[1] THEN b ELSE a],
      measurementsOf |-> [id \in { exp_42 } |-> c]]]

InitCatalog ==
  /\ sources = MainSources
  /\ store \in { CatalogStore(a, b, c) :
                   a \in TagResults, b \in TagResults, c \in MeasurementResults }
  /\ enable_cache = FALSE
  /\ data_cache = << >>
  /\ heap = << >>
  /\ th = [t \in { 1 } |-> Idle]
  /\ prepurge = << >>
  /\ quota = -1

NextCatalog ==
  \/ \E t \in DOMAIN th : Accept(t, CatalogRequests)
  \/ \E t \in DOMAIN th : Catalog(t)
  \/ \E t \in DOMAIN th : Finish(t)

SpecCatalog == InitCatalog /\ [][NextCatalog]_vars

\* -------------------------------------- the cache key on varying parameters

\* The requests the server takes in a run of SpecFingerprint.
MaxRequests == 2

\* Single-experiment requests that differ in the datasource, the experiment,
\* the order of the measurements and of the fields, the limit and the offset.
FingerprintRequests ==
  { [Request("get_data", x[1], x[2], None, << >>) EXCEPT
       !.measurements = ms, !.fields = fs, !.limit = limit, !.offset = offset] :
      x \in { << ds_u, exp_42 >>, << ds_u, exp_2 >>, << ds_u4, exp_2 >> },
      ms \in { << m_m >>, << m_m, m_n >>, << m_n, m_m >> },
      fs \in { << >>, << f_f, f_g >>, << f_g, f_f >> },
      limit \in { None, Some(1) }, offset \in { None, Some(1) } }

InitFingerprint ==
  /\ sources = MainSources
  /\ store = MainStore
  /\ enable_cache = TRUE
  /\ data_cache = << >>
  /\ heap = << >>
  /\ th = [t \in { 1 } |-> Idle]
  /\ prepurge = << >>
  /\ quota = MaxRequests

NextFingerprint ==
  \/ \E t \in DOMAIN th : Accept(t, FingerprintRequests)
  \/ \E t \in DOMAIN th : RetrieveStart(t)
  \/ \E t \in DOMAIN th : Fetch(t)
  \/ \E t \in DOMAIN th : Put(t)
  \/ \E t \in DOMAIN th : ReadCache(t)
  \/ \E t \in DOMAIN th : PostProcess(t)
  \/ \E t \in DOMAIN th : HandleSingle(t)
  \/ \E t \in DOMAIN th : Finish(t)

SpecFingerprint == InitFingerprint /\ [][NextFingerprint]_vars


\* ------------------------------------------------------------------ claims

\* The get_data requests in flight whose datasource is available.
Retrieving(t) ==
  /\ th[t].pc # "idle"
  /\ th[t].req.endpoint = "get_data"
  /\ ~unavailable(th[t].req.datasource)

\* C1: while caching is enabled and the data is unchanged, the table
\* retrieve_data returns on a cache hit is the table the same call computes
\* on a miss (and with caching disabled): the post-processed result of
\* get_data for the request's parameters.
C1_HitReturnsWhatMissComputes ==
  \A t \in DOMAIN th :
    (Retrieving(t) /\ th[t].pc = "handle" /\ th[t].hit)
      => heap[th[t].data] = post_process(th[t].req, get_data(th[t].req, experimentId(th[t])))

\* The permutations of a list.
RECURSIVE Permutations_(_)
Permutations_(l) ==
  IF l = << >> THEN { << >> }
  ELSE UNION { { << l[i] >> \o rest :
                   rest \in Permutations_([j \in 1..(Len(l) - 1) |->
                                             IF j < i THEN l[j] ELSE l[j + 1]]) } :
               i \in 1..Len(l) }

\* The requests that differ from req only in the order of the measurement
\* list and of the field list.
Reordered(req) ==
  { [req EXCEPT !.measurements = ms, !.fields = fs] :
      ms \in Permutations_(req.measurements), fs \in Permutations_(req.fields) }

\* C2: requests that are equal up to the order of the measurement list and
\* of the field list have the same dataid, so a request finds the entry that
\* an earlier request in another order created.
C2_KeyIgnoresListOrder ==
  \A t \in DOMAIN th :
    Retrieving(t) =>
      \A other \in Reordered(th[t].req) :
        /\ dataid(other, experimentId(th[t])) = dataid(th[t].req, experimentId(th[t]))
        /\ (th[t].pc = "fetch" => dataid(other, experimentId(th[t])) \notin DOMAIN data_cache)

\* C3: the dataid covers every parameter that changes what get_data
\* fetches, so the table a hit returns is, column for column and row for row,
\* the table get_data fetches for the request's own parameters.
C3_HitIsFetchedForOwnParameters ==
  \A t \in DOMAIN th :
    (Retrieving(t) /\ th[t].pc = "post" /\ th[t].hit)
      => to_json(heap[th[t].data]) = to_json(get_data(th[t].req, experimentId(th[t])))

\* C4: the first retrieval begun after a purge, for a key the cache held
\* when it was purged, is a miss that calls get_data again, and the table it
\* computes is the table the purged entry held.
C4_PurgeThenRecompute ==
  \A t \in DOMAIN th :
    (Retrieving(t) /\ th[t].pc = "post" /\ th[t].fresh
       /\ th[t].dataid \in DOMAIN prepurge)
      => /\ ~th[t].hit
         /\ th[t].calls = << "get_data", "put" >>
         /\ heap[th[t].data] = prepurge[th[t].dataid]

\* C5: no request fails because of the interleaving: a retrieval that found
\* its key in the cache gets the entry's table, never a KeyError.
C5_NoFailureByInterleaving ==
  \A t \in DOMAIN th : th[t].resp.error # "KeyError"

\* C6: a request that names a datasource which is not configured, or whose
\* client is null, is answered 404 on every route.
C6_UnavailableIsNotFound ==
  \A t \in DOMAIN th :
    (th[t].pc = "done" /\ unavailable(th[t].req.datasource))
      => th[t].resp.code = 404

\* The responses the handlers give for an unavailable datasource (lines 65,
\* 73, 81 and 142).
UnavailableResponses ==
  { Error(404, "is not available"), Error(404, "is currently not available") }

\* C7: a get_data request on an available datasource whose query matches no
\* rows is not answered with the response of an unavailable datasource.
C7_EmptyIsNotUnavailable ==
  \A t \in DOMAIN th :
    (Retrieving(t) /\ th[t].pc = "done" /\ IsNone(th[t].req.experimentId2)
       /\ empty(get_data(th[t].req, th[t].req.experimentId1)))
      => th[t].resp \notin UnavailableResponses

\* C8: with caching disabled the cache stays empty, and every retrieve_data
\* call on an available datasource calls get_data exactly once and neither
\* reads nor writes the cache.
C8_DisabledCacheRecomputes ==
  ~enable_cache =>
    /\ data_cache = << >>
    /\ \A t \in DOMAIN th :
         Retrieving(t) =>
           /\ th[t].pc \in { "put", "read" } => FALSE
           /\ th[t].pc \in { "post", "handle" } => th[t].calls = << "get_data" >> \o
                (IF th[t].pc = "handle" THEN post_calls(th[t].req) ELSE << >>)

\* A comparison answered with caching disabled, after two fetches.
C8_Witness ==
  /\ ~enable_cache
  /\ \E t \in DOMAIN th :
       /\ th[t].pc = "done" /\ th[t].resp.code = 200
       /\ th[t].call = 2 /\ th[t].calls[1] = "get_data"

\* The non-null values in the tables the client returned for one query.
Produced(tables) ==
  LET cells == UNION { { r.vals[1] : r \in Range(f.rows) } : f \in Range(tables.frames) }
  IN { v[1] : v \in { c \in cells : ~IsNone(c) } }

\* The values the discovery queries of a catalog request produce.
Discovery(req) ==
  LET bucket == store[sources[req.datasource].bucket]
  IN CASE req.endpoint = "get_all_experimentIds" ->
            Produced(bucket.tagValues["ExperimentId"])
              \cup Produced(bucket.tagValues["ExecutionId"])
       [] req.endpoint = "get_experimentIds_for_measurement" ->
            Produced(bucket.tagValuesFor[<< "ExperimentId", req.measurement >>])
              \cup Produced(bucket.tagValuesFor[<< "ExecutionId", req.measurement >>])
       [] OTHER -> Produced(bucket.measurementsOf[req.experimentId1])

StrictlyAscending(l) == \A i \in 1..(Len(l) - 1) : StrLess(l[i], l[i + 1])

CatalogAnswered(t) ==
  /\ th[t].pc = "done"
  /\ th[t].req.endpoint # "get_data"
  /\ ~unavailable(th[t].req.datasource)

\* C9: a catalog operation on an available datasource answers 200 with the
\* non-null values its discovery queries produced (for the experiment ids,
\* those of both tag names), each once, in ascending order; with no values,
\* the empty list.
C9_CatalogIsSortedSetOfValues ==
  \A t \in DOMAIN th :
    CatalogAnswered(t) =>
      /\ th[t].resp.code = 200 /\ th[t].resp.error = ""
      /\ StrictlyAscending(th[t].resp.list)
      /\ Range(th[t].resp.list) = Discovery(th[t].req)

\* All experiment ids listed where the two tag names hold different ids, one
\* of them twice, and a null.
C9_Witness ==
  \E t \in DOMAIN th :
    /\ CatalogAnswered(t)
    /\ th[t].req.endpoint = "get_all_experimentIds"
    /\ th[t].resp.list = << exp_2, exp_42, exp_43 >>
    /\ store["b1"].tagValues["ExperimentId"]
         = Values_(c_value, << Some(exp_42), None, Some(exp_42) >>)
    /\ exp_42 \notin Produced(store["b1"].tagValues["ExecutionId"])

\* Whether the request asks for the outlier filter.
Removes(req) ==
  ~IsNone(req.remove_outliers) /\ req.remove_outliers[1] \in { zscore, mad }

Cached(t) == heap[data_cache[th[t].dataid]]

ConcurrentRequests ==
  { Request("get_data", ds_u, id1, id2, << >>) :
      id1 \in { exp_42, exp_43 }, id2 \in { None, Some(exp_43) } }
    \cup { [Request("get_data", ds_u, exp_42, None, << >>) EXCEPT
              !.match_series = TRUE, !.remove_outliers = Some(zscore)] }

InitConcurrent ==
  /\ sources = MainSources
  /\ store = MainStore
  /\ enable_cache = TRUE
  /\ data_cache = << >>
  /\ heap = << >>
  /\ th = [t \in { 1, 2 } |-> Idle]
  /\ prepurge = << >>
  /\ quota = MaxRequests

NextConcurrent ==
  \/ purge_cache
  \/ \E t \in DOMAIN th : Accept(t, ConcurrentRequests)
  \/ \E t \in DOMAIN th : RetrieveStart(t)
  \/ \E t \in DOMAIN th : Fetch(t)
  \/ \E t \in DOMAIN th : Put(t)
  \/ \E t \in DOMAIN th : ReadCache(t)
  \/ \E t \in DOMAIN th : PostProcess(t)
  \/ \E t \in DOMAIN th : HandleSingle(t)
  \/ \E t \in DOMAIN th : HandleFirst(t)
  \/ \E t \in DOMAIN th : HandleSecond(t)
  \/ \E t \in DOMAIN th : Finish(t)

SpecConcurrent == InitConcurrent /\ [][NextConcurrent]_vars

\* A retrieval that missed and during whose fetch the cache was purged
\* (fresh is false once a purge ran after the membership test).
PurgedInFlight(t) ==
  Retrieving(t) /\ ~th[t].hit /\ ~th[t].fresh

\* The step in which thread t executes line 96.
Puts(t) == th[t].pc = "put" /\ th'[t].pc = "post"

\* The put of a retrieval purged in flight lands in the cache of after the
\* purge: the key is in it, with the table fetched.
PutLandsInNewCache ==
  \A t \in DOMAIN th :
    (PurgedInFlight(t) /\ Puts(t)) =>
      /\ th[t].dataid \in DOMAIN data_cache'
      /\ heap'[data_cache'[th[t].dataid]] = get_data(th[t].req, experimentId(th[t]))
      /\ DOMAIN data_cache' = DOMAIN data_cache \cup { th[t].dataid }

\* A put replaces the entry: the key maps to the object of the last put.
LastPutWins ==
  \A t \in DOMAIN th :
    Puts(t) => data_cache'[th[t].dataid] = th'[t].data

\* A purge leaves nothing in the cache.
PurgeDiscardsAll ==
  (prepurge' # prepurge /\ \A t \in DOMAIN th : th'[t].pc = th[t].pc) => data_cache' = << >>

\* An entry comes into the cache only by the put of a retrieval that missed
\* and called get_data: nothing purged comes back by itself.
NoEntryWithoutMiss ==
  /\ (DOMAIN data_cache' \ DOMAIN data_cache # {}) => \E t \in DOMAIN th : Puts(t)
  /\ \A t \in DOMAIN th : Puts(t) => (~th[t].hit /\ th[t].calls = << "get_data" >>)

\* retrieve_data of a retrieval purged in flight returns the table it
\* fetched (post-processed as requested).
PurgedInFlightReturnsFetched ==
  \A t \in DOMAIN th :
    (PurgedInFlight(t) /\ th[t].pc = "handle")
      => heap[th[t].data] = post_process(th[t].req, get_data(th[t].req, experimentId(th[t])))

\* C11: a purge discards the whole cache and does not disturb the
\* retrievals in flight: the put of a retrieval that missed and was still
\* fetching when the purge ran lands in the new cache, that retrieval
\* returns the table it fetched, no purged entry comes back without a new
\* miss, and of two concurrent misses for one key the entry holds the object
\* of the last put.
C11_PurgeLeavesInFlightAlone ==
  /\ [][PurgeDiscardsAll /\ PutLandsInNewCache /\ LastPutWins /\ NoEntryWithoutMiss]_vars
  /\ []PurgedInFlightReturnsFetched

\* ------------------------------------------------- a store whose queries fail

\* Where control goes when get_data raises: nothing in get_data,
\* retrieve_data or the handler catches, so the request is over.
RetryFetch == "fetch"

after_raise == "done"

\* retrieve_data, line 95 or 101, when query_data_frame raises inside
\* get_data (the discovery query of line 143 or the query of any
\* measurement, line 165): the exception leaves get_data, retrieve_data and
\* the handler, and the request is answered 500.
FetchRaises(t) ==
  /\ th[t].pc = "fetch"
  /\ LET l == th[t]
         locals == [th EXCEPT ![t].calls = Append(l.calls, "get_data"),
                              ![t].resp = Error(500, "QueryError"),
                              ![t].pc = after_raise]
     IN Commit(heap, data_cache, locals)
  /\ UNCHANGED << sources, store, enable_cache, prepurge, quota >>

\* One or two experiments of u, the measurements named or discovered.
FailureRequests ==
  { [Request("get_data", ds_u, id1, id2, << >>) EXCEPT !.measurements = ms] :
      id1 \in { exp_42, exp_43 }, id2 \in { None, Some(exp_43) },
      ms \in { << >>, << m_m, m_n >> } }

InitFailure ==
  /\ sources = MainSources
  /\ store = MainStore
  /\ enable_cache \in BOOLEAN
  /\ data_cache = << >>
  /\ heap = << >>
  /\ th = [t \in { 1 } |-> Idle]
  /\ prepurge = << >>
  /\ quota = -1

NextFailure ==
  \/ purge_cache
  \/ \E t \in DOMAIN th : Accept(t, FailureRequests)
  \/ \E t \in DOMAIN th : RetrieveStart(t)
  \/ \E t \in DOMAIN th : Fetch(t)
  \/ \E t \in DOMAIN th : FetchRaises(t)
  \/ \E t \in DOMAIN th : Put(t)
  \/ \E t \in DOMAIN th : ReadCache(t)
  \/ \E t \in DOMAIN th : PostProcess(t)
  \/ \E t \in DOMAIN th : HandleSingle(t)
  \/ \E t \in DOMAIN th : HandleFirst(t)
  \/ \E t \in DOMAIN th : HandleSecond(t)
  \/ \E t \in DOMAIN th : Finish(t)

SpecFailure == InitFailure /\ [][NextFailure]_vars

\* The request of thread t is one whose get_data raised.
QueryFailed(t) == th[t].resp.error = "QueryError"

\* The failure is the answer of that request: get_data was called once
\* (no retry), no table came back, nothing was put, and the cache does not
\* hold the key of the call.
FailureIsRequestScoped ==
  \A t \in DOMAIN th :
    QueryFailed(t) =>
      /\ th[t].pc = "done"
      /\ th[t].resp = Error(500, "QueryError")
      /\ th[t].calls = << "get_data" >> /\ ~th[t].hit /\ th[t].data = 0
      /\ th[t].dataid \notin DOMAIN data_cache

\* The step in which get_data raises leaves the cache as it was: the same
\* keys, each with the same table.
FailureLeavesCache ==
  \A t \in DOMAIN th :
    (~QueryFailed(t) /\ QueryFailed(t)') =>
      /\ DOMAIN data_cache' = DOMAIN data_cache
      /\ \A k \in DOMAIN data_cache : heap'[data_cache'[k]] = heap[data_cache[k]]

\* A retrieve_data call on an available datasource whose key the cache does
\* not hold is a miss: it goes on to call get_data.
AbsentKeyIsFetched ==
  \A t \in DOMAIN th :
    (th[t].pc = "retrieve" /\ th'[t].pc # "retrieve"
       /\ ~unavailable(th[t].req.datasource)
       /\ dataid(th[t].req, experimentId(th[t])) \notin DOMAIN data_cache)
      => th'[t].pc = "fetch"

\* C12: a query that raises inside get_data fails that one request, with
\* no retry and no partial result; no entry is stored under the key of the
\* call, the entries the cache holds stay as they are, and an identical
\* request made afterwards finds no entry and calls get_data again.
C12_QueryFailureIsRequestScoped ==
  /\ []FailureIsRequestScoped
  /\ [][FailureLeavesCache /\ AbsentKeyIsFetched]_vars

\* The second series of a comparison failed while the cache holds the first.
C12_Witness ==
  \E t \in DOMAIN th :
    /\ QueryFailed(t) /\ th[t].pc = "done" /\ th[t].call = 2
    /\ enable_cache /\ DOMAIN data_cache # {}
    /\ th[t].dataid \notin DOMAIN data_cache
=============================================================================
